---- MODULE Spec2Model ----
(***************************************************************************)
(* Model of bot.py: a scheduled script that pulls task records from a      *)
(* Notion database, turns each record into a row, filters the rows that    *)
(* are close to their due date, renders them as Telegram MarkdownV2 and    *)
(* replaces the reminder message of the day.                               *)
(*                                                                         *)
(* Texts (Python str values that the code inspects character by character) *)
(* are sequences of one-character strings.  JSON values are tagged         *)
(* records.  The result of a Python call is either a returned value or a   *)
(* raised exception.                                                       *)
(***************************************************************************)
EXTENDS Integers, Sequences, FiniteSets, TLC

VARIABLES
  today,   \* day ordinal of the run's frozen "today" (bot.py line 246)
  fnOp,    \* name of the function applied to fnArg, "none" before the call
  fnArg,   \* argument of a function applied on its own
  fnOut,   \* what the call returned or raised
  page_cache,     \* record cache: identifier -> page (bot.py line 114)
  materia_cache,  \* title cache: identifier -> title (bot.py line 115)
  pc,             \* position of the script, "idle" when no run is modelled
  env,            \* which of the five configuration values are set
  files,          \* the three files under caches/
  last_message_info,  \* last-dispatch record in memory (line 118)
  results,        \* records accumulated by fetch_notion_data
  all_rows,       \* rows merged from the batches
  df,             \* the sorted frame (line 318)
  tarefas,        \* the filtered rows (line 328)
  mensagens_validas,  \* fragments that are not None (line 468)
  mensagem_conjunta,  \* the joined message, undefined until line 472 runs
  reqs,           \* requests and file writes issued by the current run, in order
  channel,        \* live messages of the primary chat
  nextId,         \* identifier Telegram gives to the next message
  runs,           \* runs started so far
  database,       \* the records the task database holds
  lastAtStart,    \* the last-dispatch file as the current run found it
  undeleted,      \* a delete request for a live message left it live
  unrecorded,     \* a delivered message did not end up in the last-dispatch file
  workers,        \* the pool's workers, each inside process_batch (lines 312-315)
  cachesAtStart   \* the two caches as the pool found them

fnVars == <<fnOp, fnArg, fnOut>>
cacheVars == <<page_cache, materia_cache>>
runVars ==
  <<pc, env, files, last_message_info, results, all_rows, df, tarefas,
    mensagens_validas, mensagem_conjunta, reqs, channel, nextId, runs, database,
    lastAtStart, undeleted, unrecorded>>
poolVars == <<workers, cachesAtStart>>

(***************************************************************************)
(* Bounds of the model.                                                    *)
(***************************************************************************)
MaxTextLen == 2

(***************************************************************************)
(* JSON values and Python results.                                         *)
(***************************************************************************)
JNull == [k |-> "null"]
JStr(t) == [k |-> "str", s |-> t]
JInt(n) == [k |-> "int", n |-> n]
JBool(b) == [k |-> "bool", b |-> b]
JList(l) == [k |-> "list", l |-> l]
JDict(f) == [k |-> "dict", d |-> f]

EmptyDict == JDict([x \in {} |-> JNull])
EmptyList == JList(<<>>)
EmptyStr == JStr(<<>>)

Dict1(key, v) == JDict([x \in {key} |-> v])

Ret(v) == [ok |-> TRUE, v |-> v]
Raise(e) == [ok |-> FALSE, exc |-> e]

\* bool(v) of Python
Truthy(v) ==
  CASE v.k = "null" -> FALSE
    [] v.k = "str" -> v.s # <<>>
    [] v.k = "int" -> v.n # 0
    [] v.k = "bool" -> v.b
    [] v.k = "list" -> v.l # <<>>
    [] v.k = "dict" -> DOMAIN v.d # {}

\* r.get(key, default): only a dict has the method
PyGet(r, key, default) ==
  IF ~r.ok THEN r
  ELSE IF r.v.k # "dict" THEN Raise("AttributeError")
  ELSE IF key \in DOMAIN r.v.d THEN Ret(r.v.d[key])
  ELSE Ret(default)

\* r[0]
PyIndex0(r) ==
  IF ~r.ok THEN r
  ELSE CASE r.v.k = "list" -> IF r.v.l = <<>> THEN Raise("IndexError") ELSE Ret(r.v.l[1])
         [] r.v.k = "str" -> IF r.v.s = <<>> THEN Raise("IndexError") ELSE Ret(JStr(<<r.v.s[1]>>))
         [] r.v.k = "dict" -> Raise("KeyError")
         [] OTHER -> Raise("TypeError")

IsSpace(c) == c \in {" ", "\n", "\t"}

RECURSIVE LStrip(_)
LStrip(t) == IF t # <<>> /\ IsSpace(Head(t)) THEN LStrip(Tail(t)) ELSE t

RECURSIVE RStrip(_)
RStrip(t) ==
  IF t # <<>> /\ IsSpace(t[Len(t)]) THEN RStrip(SubSeq(t, 1, Len(t) - 1)) ELSE t

\* str.strip()
Strip(t) == RStrip(LStrip(t))

\* r.strip(): only a str has the method
PyStrip(r) ==
  IF ~r.ok THEN r
  ELSE IF r.v.k # "str" THEN Raise("AttributeError")
  ELSE Ret(JStr(Strip(r.v.s)))

\* try: ... except (caught): return default
Except(r, caught, default) ==
  IF ~r.ok /\ r.exc \in caught THEN Ret(default) ELSE r

(***************************************************************************)
(* Record field extractors.                                                *)
(***************************************************************************)
extract_title(props, prop_name) ==
  Except(PyStrip(PyGet(PyIndex0(PyGet(PyGet(Ret(props), prop_name, EmptyDict),
                                      "title", JList(<<EmptyDict>>))),
                       "plain_text", EmptyStr)),
         {"IndexError", "AttributeError"}, EmptyStr)

extract_checkbox(props, prop_name) ==
  LET c == PyGet(PyGet(Ret(props), prop_name, EmptyDict), "checkbox", JBool(FALSE))
  IN IF ~c.ok THEN c
     ELSE IF Truthy(c.v) THEN Ret(JStr(<<"Y", "e", "s">>)) ELSE Ret(JStr(<<"N", "o">>))

extract_select(props, prop_name) ==
  LET n == PyGet(PyGet(PyGet(Ret(props), prop_name, EmptyDict), "select", EmptyDict),
                 "name", EmptyStr)
  IN IF ~n.ok THEN n
     ELSE IF Truthy(n.v) THEN n ELSE Ret(EmptyStr)

extract_date(props, prop_name) ==
  PyGet(PyGet(PyGet(Ret(props), prop_name, EmptyDict), "date", EmptyDict),
        "start", EmptyStr)

extract_rich_text(props, prop_name) ==
  LET rich_text == PyGet(PyGet(Ret(props), prop_name, EmptyDict), "rich_text", EmptyList)
  IN IF ~rich_text.ok THEN rich_text
     ELSE IF Truthy(rich_text.v)
          THEN PyGet(PyGet(PyIndex0(rich_text), "text", EmptyDict), "content", EmptyStr)
          ELSE Ret(EmptyStr)

(***************************************************************************)
(* Dates.  A date string is a text; datetime.fromisoformat and             *)
(* datetime.strptime parse it.  A parsed datetime is its day ordinal and   *)
(* whether it carries a UTC offset.  Years are counted as 365 days: the    *)
(* date strings of the model lie within one non-leap year.                 *)
(***************************************************************************)
Digits == <<"0", "1", "2", "3", "4", "5", "6", "7", "8", "9">>

IsDigit(c) == \E i \in 1..10 : Digits[i] = c

DigitVal(c) == (CHOOSE i \in 1..10 : Digits[i] = c) - 1

AllDigits(t) == \A i \in 1..Len(t) : IsDigit(t[i])

RECURSIVE ParseNum(_)
ParseNum(t) ==
  IF t = <<>> THEN 0 ELSE 10 * ParseNum(SubSeq(t, 1, Len(t) - 1)) + DigitVal(t[Len(t)])

RECURSIVE NatToText(_)
NatToText(n) ==
  IF n < 10 THEN <<Digits[n + 1]>> ELSE NatToText(n \div 10) \o <<Digits[(n % 10) + 1]>>

\* str(n)
IntToText(n) == IF n < 0 THEN <<"-">> \o NatToText(0 - n) ELSE NatToText(n)

DaysInMonth == <<31, 28, 31, 30, 31, 30, 31, 31, 30, 31, 30, 31>>
DaysBeforeMonth == <<0, 31, 59, 90, 120, 151, 181, 212, 243, 273, 304, 334>>

Ordinal(y, m, d) == 365 * y + DaysBeforeMonth[m] + d

\* the text is YYYY-MM-DD and names a day of the calendar
IsDateText(t) ==
  /\ Len(t) = 10
  /\ t[5] = "-" /\ t[8] = "-"
  /\ AllDigits(SubSeq(t, 1, 4)) /\ AllDigits(SubSeq(t, 6, 7)) /\ AllDigits(SubSeq(t, 9, 10))
  /\ ParseNum(SubSeq(t, 1, 4)) >= 1
  /\ ParseNum(SubSeq(t, 6, 7)) \in 1..12
  /\ ParseNum(SubSeq(t, 9, 10)) \in 1..DaysInMonth[ParseNum(SubSeq(t, 6, 7))]

DateYear(t) == ParseNum(SubSeq(t, 1, 4))
DateMonth(t) == ParseNum(SubSeq(t, 6, 7))
DateDay(t) == ParseNum(SubSeq(t, 9, 10))

\* the text is HH:MM or HH:MM:SS
IsClockText(t) ==
  /\ Len(t) \in {5, 8}
  /\ AllDigits(SubSeq(t, 1, 2)) /\ t[3] = ":" /\ AllDigits(SubSeq(t, 4, 5))
  /\ ParseNum(SubSeq(t, 1, 2)) \in 0..23 /\ ParseNum(SubSeq(t, 4, 5)) \in 0..59
  /\ Len(t) = 8 => t[6] = ":" /\ AllDigits(SubSeq(t, 7, 8)) /\ ParseNum(SubSeq(t, 7, 8)) \in 0..59

\* the text is +HH:MM or -HH:MM
IsOffsetText(t) ==
  /\ Len(t) = 6
  /\ t[1] \in {"+", "-"}
  /\ IsClockText(SubSeq(t, 2, 6))

\* datetime.fromisoformat(t): date, date and time, or date, time and offset
fromisoformat(t) ==
  IF Len(t) = 10
  THEN IF IsDateText(t)
       THEN Ret([ord |-> Ordinal(DateYear(t), DateMonth(t), DateDay(t)), aware |-> FALSE])
       ELSE Raise("ValueError")
  ELSE IF Len(t) < 16 \/ ~IsDateText(SubSeq(t, 1, 10))
  THEN Raise("ValueError")
  ELSE LET d == SubSeq(t, 1, 10)
           rest == SubSeq(t, 12, Len(t))
           ord == Ordinal(DateYear(d), DateMonth(d), DateDay(d))
       IN IF IsClockText(rest) THEN Ret([ord |-> ord, aware |-> FALSE])
          ELSE IF Len(rest) > 6 /\ IsClockText(SubSeq(rest, 1, Len(rest) - 6))
                  /\ IsOffsetText(SubSeq(rest, Len(rest) - 5, Len(rest)))
          THEN Ret([ord |-> ord, aware |-> TRUE])
          ELSE Raise("ValueError")

\* datetime.strptime(t, "%Y-%m-%d"): the whole text must be a date
strptime_ymd(t) ==
  IF IsDateText(t) THEN Ret([month |-> DateMonth(t), day |-> DateDay(t)])
  ELSE Raise("ValueError")

calculate_days_remaining(entrega_date, today_ord) ==
  IF ~Truthy(entrega_date) THEN Ret(JNull)
  ELSE IF entrega_date.k # "str" THEN Raise("TypeError")
  ELSE LET entrega_dt == fromisoformat(entrega_date.s)
       IN IF ~entrega_dt.ok THEN Except(entrega_dt, {"ValueError"}, JNull)
          ELSE IF entrega_dt.v.aware THEN Raise("TypeError")
          ELSE Ret(JInt(entrega_dt.v.ord - today_ord))

meses ==
  << <<"J", "a", "n", "e", "i", "r", "o">>,
     <<"F", "e", "v", "e", "r", "e", "i", "r", "o">>,
     <<"M", "a", "r", "ç", "o">>,
     <<"A", "b", "r", "i", "l">>,
     <<"M", "a", "i", "o">>,
     <<"J", "u", "n", "h", "o">>,
     <<"J", "u", "l", "h", "o">>,
     <<"A", "g", "o", "s", "t", "o">>,
     <<"S", "e", "t", "e", "m", "b", "r", "o">>,
     <<"O", "u", "t", "u", "b", "r", "o">>,
     <<"N", "o", "v", "e", "m", "b", "r", "o">>,
     <<"D", "e", "z", "e", "m", "b", "r", "o">> >>

\* the second definition of formatar_data is the one in force
formatar_data(data_str) ==
  LET data == strptime_ymd(data_str)
  IN IF ~data.ok THEN data
     ELSE Ret(NatToText(data.v.day) \o <<" ", "d", "e", " ">> \o meses[data.v.month])

\* the text YYYY-MM-DD of a day of the year 2025
TwoDigits(n) == <<Digits[(n \div 10) + 1], Digits[(n % 10) + 1]>>
DateText(m, d) == <<"2", "0", "2", "5", "-">> \o TwoDigits(m) \o <<"-">> \o TwoDigits(d)

(***************************************************************************)
(* Message rendering.  A fragment is the sequence of the pieces of the     *)
(* f-string that builds it: a literal piece of the template, or a piece    *)
(* interpolated from the task (src names the field it comes from).         *)
(***************************************************************************)
\* the grave accent, a character the lexer of TLA+ does not take in a string
Grave == "U+0060"

caracteres_reservados ==
  <<"_", "*", "[", "]", "(", ")", "~", Grave, ">", "#", "+", "-", "=", "|", "{", "}", ".", "!">>

\* texto.replace(char, "\\" + char)
RECURSIVE ReplaceChar(_, _)
ReplaceChar(texto, char) ==
  IF texto = <<>> THEN <<>>
  ELSE (IF Head(texto) = char THEN <<"\\", char>> ELSE <<Head(texto)>>)
       \o ReplaceChar(Tail(texto), char)

RECURSIVE EscapeFrom(_, _)
EscapeFrom(texto, i) ==
  IF i > Len(caracteres_reservados) THEN texto
  ELSE EscapeFrom(ReplaceChar(texto, caracteres_reservados[i]), i + 1)

escapar_markdown_v2(texto) == EscapeFrom(texto, 1)

LowerCase ==
  <<"a", "b", "c", "d", "e", "f", "g", "h", "i", "j", "k", "l", "m",
    "n", "o", "p", "q", "r", "s", "t", "u", "v", "w", "x", "y", "z">>
UpperCase ==
  <<"A", "B", "C", "D", "E", "F", "G", "H", "I", "J", "K", "L", "M",
    "N", "O", "P", "Q", "R", "S", "T", "U", "V", "W", "X", "Y", "Z">>

UpperChar(c) ==
  IF \E i \in 1..26 : LowerCase[i] = c
  THEN UpperCase[CHOOSE i \in 1..26 : LowerCase[i] = c]
  ELSE c

\* str.upper()
Upper(t) == [i \in 1..Len(t) |-> UpperChar(t[i])]

\* topicos.split(", ")
RECURSIVE SplitCommaSpace(_)
SplitCommaSpace(t) ==
  IF \E i \in 1..(Len(t) - 1) : t[i] = "," /\ t[i + 1] = " "
  THEN LET i == CHOOSE j \in 1..(Len(t) - 1) :
                  /\ t[j] = "," /\ t[j + 1] = " "
                  /\ \A h \in 1..(j - 1) : ~(t[h] = "," /\ t[h + 1] = " ")
       IN <<SubSeq(t, 1, i - 1)>> \o SplitCommaSpace(SubSeq(t, i + 2, Len(t)))
  ELSE <<t>>

TextND == <<"N", "/", "D">>
TextSemDescricao == <<"S", "e", "m", " ", "d", "e", "s", "c", "r", "i", "ç", "ã", "o">>
TextSemTopicos == <<"S", "e", "m", " ", "T", "ó", "p", "i", "c", "o", "s">>
\* "U+1F6A8" stands for the one character of the siren sign
TextHoje == <<"U+1F6A8", " ", "H", "O", "J", "E", " ", "U+1F6A8">>

Lit(s) == [src |-> "literal", s |-> s]
Dyn(src, t) == [src |-> src, t |-> t]

\* the bullet lines of the topics, joined by newlines
RECURSIVE TopicosFormatados(_)
TopicosFormatados(topicos) ==
  IF topicos = <<>> THEN <<>>
  ELSE << Lit("\\- _"), Dyn("topico", escapar_markdown_v2(Strip(Head(topicos)))), Lit("_") >>
       \o (IF Tail(topicos) = <<>> THEN <<>> ELSE <<Lit("\n")>>)
       \o TopicosFormatados(Tail(topicos))

\* the line of bot.py that decides whether a task gets no fragment
SemMensagem(dias_restantes) == dias_restantes > 7

gerar_mensagem_tarefa(tarefa) ==
  LET dias == PyGet(Ret(tarefa), "Dias Restantes", JNull)
      tipo == PyGet(Ret(tarefa), "Tipo", JStr(TextND))
      materia == PyGet(Ret(tarefa), "Matéria", JStr(TextND))
      entrega == PyGet(Ret(tarefa), "Entrega", JStr(TextND))
      desc0 == PyGet(Ret(tarefa), "Descrição", JNull)
      descricao == IF Truthy(desc0.v) THEN desc0.v ELSE JStr(TextSemDescricao)
      top0 == PyGet(Ret(tarefa), "Tópicos", JNull)
      topicos == IF Truthy(top0.v) THEN top0.v ELSE JStr(TextSemTopicos)
      data_formatada ==
        IF entrega.v = JStr(TextND) THEN Ret(TextND)
        ELSE IF entrega.v.k # "str" THEN Raise("TypeError")
        ELSE formatar_data(entrega.v.s)
      dias_texto ==
        IF dias.v.n = 0 THEN TextHoje
        ELSE IntToText(dias.v.n) \o <<" ", "D", "I", "A">>
             \o (IF dias.v.n > 1 THEN <<"S">> ELSE <<>>)
  IN IF dias.v.k # "int" THEN Raise("TypeError")
     ELSE IF SemMensagem(dias.v.n) THEN Ret(JNull)
     ELSE IF tipo.v.k # "str" THEN Raise("AttributeError")
     ELSE IF ~data_formatada.ok THEN data_formatada
     ELSE IF materia.v.k # "str" \/ descricao.k # "str" \/ topicos.k # "str"
     THEN Raise("AttributeError")
     ELSE Ret(JList(
            << Lit("*"), Dyn("tipo", escapar_markdown_v2(Upper(tipo.v.s))),
               Lit(" \\- "), Dyn("materia", escapar_markdown_v2(materia.v.s)), Lit("*\n"),
               Lit("Dias Restantes: *"), Dyn("dias", dias_texto), Lit("*\n"),
               Lit("Entrega: U+0060"), Dyn("data", data_formatada.v), Lit("U+0060\n"),
               Lit("Tópicos:\n") >>
            \o TopicosFormatados(SplitCommaSpace(topicos.s))
            \o << Lit("\nDescrição: _"),
                  Dyn("descricao", escapar_markdown_v2(descricao.s)), Lit("_") >>))

(***************************************************************************)
(* Cache files.  A file is absent or has an age in hours (the time since   *)
(* its last modification) and a body, which is a JSON object or is not.    *)
(* A mapping is a function from keys to values.                            *)
(***************************************************************************)
HoursPerDay == 24

EmptyMap == [x \in {} |-> JNull]

NoFile == [exists |-> FALSE]
File(age, valid, map) == [exists |-> TRUE, age |-> age, valid |-> valid, map |-> map]

\* (datetime.now() - mod_time).days
AgeDays(file) == file.age \div HoursPerDay

\* the condition of line 67 under which the file is not read
Outdated(file, max_age_days) == AgeDays(file) > max_age_days

load_cache(file) ==
  IF file.exists
  THEN IF file.valid THEN file.map ELSE EmptyMap
  ELSE EmptyMap

check_and_update_cache(file, max_age_days) ==
  IF file.exists /\ Outdated(file, max_age_days) THEN EmptyMap
  ELSE load_cache(file)

\* save_cache: the file is overwritten, or the error is logged and the file is left
save_cache(cache, file, written) ==
  IF written THEN File(0, TRUE, cache) ELSE file

(***************************************************************************)
(* Relation resolver.  The remote pages are fixed: every fetch of an       *)
(* identifier that succeeds returns the same page.  outcomes[i] tells      *)
(* whether the request for the i-th relation, if one is issued, succeeds.  *)
(***************************************************************************)
\* ", ".join(titles)
RECURSIVE JoinCommaSpace(_)
JoinCommaSpace(titles) ==
  IF titles = <<>> THEN <<>>
  ELSE IF Len(titles) = 1 THEN titles[1]
  ELSE titles[1] \o <<",", " ">> \o JoinCommaSpace(Tail(titles))

TextNenhumaRelacao ==
  <<"N", "e", "n", "h", "u", "m", "a", " ", "r", "e", "l", "a", "ç", "ã", "o", " ",
    "e", "n", "c", "o", "n", "t", "r", "a", "d", "a">>

RelIds == {"A", "B", "C"}

\* one entry of a relation list
Rel(id) == JDict([x \in {"id"} |-> id])

RemoteTitle(id) ==
  CASE id = "A" -> <<"B", "i", "o">>
    [] id = "B" -> <<"M", ".", "a">>
    [] id = "C" -> <<>>

\* the page GET /pages/{id} answers with
RemotePage(id) ==
  Dict1("properties",
        Dict1("Name", Dict1("title", JList(<<Dict1("plain_text", JStr(RemoteTitle(id)))>>))))

\* F(e) with e evaluated once, the way a Python local holds the value of a call
With(e, F(_)) == CHOOSE out \in { F(x) : x \in {e} } : TRUE

\* get_notion_page_async: the page, the record cache after the call, and
\* whether a request was issued
get_notion_page_async(page_id, pcache, fetched) ==
  IF page_id \in DOMAIN pcache
  THEN [data |-> pcache[page_id], page_cache |-> pcache, request |-> FALSE]
  ELSE IF fetched
  THEN [data |-> RemotePage(page_id),
        page_cache |-> [x \in DOMAIN pcache \cup {page_id} |->
                          IF x = page_id THEN RemotePage(page_id) ELSE pcache[x]],
        request |-> TRUE]
  ELSE [data |-> EmptyDict, page_cache |-> pcache, request |-> TRUE]

\* the sentinel of line 229 returned for a record without relations
NoRelations_Sentinel == JStr(TextNenhumaRelacao)

\* what the resolver returns for a record without relations (line 211)
NoRelations == EmptyStr

\* the value of the last line of the resolver (line 229)
JoinedTitles(titles) ==
  IF JoinCommaSpace(titles) # <<>> THEN JStr(JoinCommaSpace(titles))
  ELSE JStr(TextNenhumaRelacao)

\* the loop over the relations from position i on; st carries titles, the
\* two caches and the identifiers requested so far
RECURSIVE ResolveFrom(_, _, _, _)
ResolveFrom(relations, i, outcomes, st0) ==
  With(st0, LAMBDA st :
  IF i > Len(relations) THEN st
  ELSE LET rel_id == relations[i].d["id"]
       IN IF rel_id \in DOMAIN st.materia_cache
          THEN ResolveFrom(relations, i + 1, outcomes,
                 [st EXCEPT !.titles = Append(@, st.materia_cache[rel_id])])
          ELSE With(get_notion_page_async(rel_id, st.page_cache, outcomes[i]), LAMBDA page :
                 LET title == extract_title(PyGet(Ret(page.data), "properties", EmptyDict).v, "Name")
                     st1 == [st EXCEPT !.page_cache = page.page_cache,
                                       !.requests = IF page.request THEN Append(@, rel_id) ELSE @]
                 IN IF title.ok /\ Truthy(title.v)
                    THEN ResolveFrom(relations, i + 1, outcomes,
                           [st1 EXCEPT !.titles = Append(@, title.v.s),
                                       !.materia_cache =
                                          [x \in DOMAIN st.materia_cache \cup {rel_id} |->
                                             IF x = rel_id THEN title.v.s
                                             ELSE st.materia_cache[x]]])
                    ELSE ResolveFrom(relations, i + 1, outcomes, st1)))

\* extract_relation_titles_async: the result, the caches after the call and
\* the page requests it issued
extract_relation_titles_async(props, prop_name, mcache, pcache, outcomes) ==
  LET relations == PyGet(PyGet(Ret(props), prop_name, EmptyDict), "relation", EmptyList)
      st0 == [titles |-> <<>>, materia_cache |-> mcache, page_cache |-> pcache,
              requests |-> <<>>]
  IN IF ~relations.ok
     THEN [st0 EXCEPT !.titles = relations]
     ELSE IF ~Truthy(relations.v)
     THEN [st0 EXCEPT !.titles = Ret(NoRelations)]
     ELSE With(ResolveFrom(relations.v.l, 1, outcomes, st0), LAMBDA st :
            [st EXCEPT !.titles = Ret(JoinedTitles(st.titles))])

(***************************************************************************)
(* The extractors applied on their own to property maps of every shape.    *)
(***************************************************************************)
Today0 == Ordinal(2025, 3, 6)

NoOut == [ok |-> FALSE, exc |-> "none"]

PropNames == {"Professor", "Feito?", "Tipo", "Data de Entrega", "Descrição"}

TextA == <<"a">>
TextPadded == <<" ", "a", " ">>
DateTimeText == DateText(3, 10) \o <<"T", "1", "0", ":", "0", "0", ":", "0", "0">>
DateTimeOffsetText == DateTimeText \o <<"-", "0", "3", ":", "0", "0">>
NotADateText == <<"x">>

TitleValues ==
  { EmptyList, JNull, JList(<<EmptyDict>>),
    JList(<<Dict1("plain_text", JStr(TextPadded))>>),
    JList(<<Dict1("plain_text", JNull)>>) }

CheckboxValues == { JBool(TRUE), JBool(FALSE), JNull }

SelectValues ==
  { JNull, EmptyDict, Dict1("name", JStr(TextA)), Dict1("name", JNull) }

DateValues ==
  { JNull, EmptyDict, Dict1("start", JNull) }
  \cup { Dict1("start", JStr(t)) :
           t \in { <<>>, DateText(3, 4), DateText(3, 6), DateText(3, 10), DateText(2, 30),
                   DateTimeText, DateTimeOffsetText, NotADateText } }

RichTextValues ==
  { EmptyList, JNull, JList(<<EmptyDict>>),
    JList(<<Dict1("text", JNull)>>),
    JList(<<Dict1("text", Dict1("content", JStr(TextA)))>>) }

\* the value a record holds under one property name
PropertyValues ==
  { JNull, EmptyDict }
  \cup { Dict1("title", v) : v \in TitleValues }
  \cup { Dict1("checkbox", v) : v \in CheckboxValues }
  \cup { Dict1("select", v) : v \in SelectValues }
  \cup { Dict1("date", v) : v \in DateValues }
  \cup { Dict1("rich_text", v) : v \in RichTextValues }

PropMaps == { EmptyDict } \cup { Dict1(n, v) : n \in {"Tipo", "Data de Entrega"}, v \in PropertyValues }

RowKeys ==
  { "Professor", "Feito?", "Tipo", "Estágio", "Matéria", "Entrega",
    "Dias Restantes", "Descrição", "Tópicos" }

\* the dict that process_result returns
MakeRow(professor, feito, tipo, estagio, materia, entrega, dias, descricao, topicos) ==
  JDict([x \in RowKeys |->
           CASE x = "Professor" -> professor
             [] x = "Feito?" -> feito
             [] x = "Tipo" -> tipo
             [] x = "Estágio" -> estagio
             [] x = "Matéria" -> materia
             [] x = "Entrega" -> entrega
             [] x = "Dias Restantes" -> dias
             [] x = "Descrição" -> descricao
             [] x = "Tópicos" -> topicos])

TextYes == <<"Y", "e", "s">>
TextNo == <<"N", "o">>

(***************************************************************************)
(* Batch pipeline: one record to one row, the frame, the filter.           *)
(***************************************************************************)
\* the first of the results that raised, in the order Python evaluates them
RECURSIVE FirstRaise(_)
FirstRaise(rs) ==
  IF rs = <<>> THEN Ret(JNull)
  ELSE IF ~Head(rs).ok THEN Head(rs) ELSE FirstRaise(Tail(rs))

\* process_result: the row (or the exception), the caches after the call and
\* the page requests issued
process_result(result, today_ord, mcache, pcache, outcomes) ==
  LET props == result.d["properties"]
      entrega_date == extract_date(props, "Data de Entrega")
      professor == extract_title(props, "Professor")
      feito == extract_checkbox(props, "Feito?")
      tipo == extract_select(props, "Tipo")
      estagio == extract_select(props, "Estágio")
      before == FirstRaise(<<entrega_date, professor, feito, tipo, estagio>>)
      dias == calculate_days_remaining(entrega_date.v, today_ord)
      descricao == extract_rich_text(props, "Descrição")
  IN IF ~before.ok
     THEN [row |-> before, materia_cache |-> mcache, page_cache |-> pcache,
           requests |-> <<>>]
     ELSE With(extract_relation_titles_async(props, "Matéria", mcache, pcache, outcomes),
            LAMBDA materia :
              LET between == FirstRaise(<<materia.titles, dias, descricao>>)
              IN IF ~between.ok
                 THEN [row |-> between, materia_cache |-> materia.materia_cache,
                       page_cache |-> materia.page_cache, requests |-> materia.requests]
                 ELSE With(extract_relation_titles_async(props, "Tópicos",
                             materia.materia_cache, materia.page_cache, outcomes),
                        LAMBDA topicos :
                          [row |-> IF topicos.titles.ok
                                   THEN Ret(MakeRow(professor.v, feito.v, tipo.v, estagio.v,
                                                    materia.titles.v, entrega_date.v, dias.v,
                                                    descricao.v, topicos.titles.v))
                                   ELSE topicos.titles,
                           materia_cache |-> topicos.materia_cache,
                           page_cache |-> topicos.page_cache,
                           requests |-> materia.requests \o topicos.requests]))

\* process_batch over the records from position i on; outcomes[i] are the
\* outcomes of the page requests of the i-th record
RECURSIVE ProcessFrom(_, _, _, _, _)
ProcessFrom(batch, i, today_ord, outcomes, st0) ==
  With(st0, LAMBDA st :
  IF i > Len(batch) \/ ~st.ok THEN st
  ELSE With(process_result(batch[i], today_ord, st.materia_cache, st.page_cache,
                           outcomes[i]),
         LAMBDA r :
           ProcessFrom(batch, i + 1, today_ord, outcomes,
             [ok |-> r.row.ok,
              exc |-> IF r.row.ok THEN "" ELSE r.row.exc,
              rows |-> IF r.row.ok THEN Append(st.rows, r.row.v) ELSE st.rows,
              materia_cache |-> r.materia_cache,
              page_cache |-> r.page_cache,
              requests |-> st.requests \o r.requests])))

process_batch(batch, today_ord, mcache, pcache, outcomes) ==
  ProcessFrom(batch, 1, today_ord, outcomes,
              [ok |-> TRUE, exc |-> "", rows |-> <<>>, materia_cache |-> mcache,
               page_cache |-> pcache, requests |-> <<>>])

\* sort("Dias Restantes", nulls_last=True): the order of two rows
DiasBefore(a, b) ==
  \/ b.d["Dias Restantes"] = JNull
  \/ /\ a.d["Dias Restantes"] # JNull
     /\ a.d["Dias Restantes"].n <= b.d["Dias Restantes"].n

IsSorted(rows) == \A i \in 1..(Len(rows) - 1) : DiasBefore(rows[i], rows[i + 1])

IndexPermutations(n) == { f \in [1..n -> 1..n] : \A i, j \in 1..n : f[i] = f[j] => i = j }

\* the frames the sort may return: it does not fix the order of equal keys
SortedFrames(rows) ==
  { [i \in 1..Len(rows) |-> rows[f[i]]] : f \in IndexPermutations(Len(rows)) }
  \cap { fr \in [1..Len(rows) -> { rows[i] : i \in 1..Len(rows) }] : IsSorted(fr) }

\* three-valued results of the frame expressions: "T", "F" or "N" (null)
ColEq(v, text) == IF v = JNull THEN "N" ELSE IF v = JStr(text) THEN "T" ELSE "F"
\* a comparison that takes null for a small number
ColLe_NullIsSmall(v, n) == IF v = JNull THEN "T" ELSE IF v.n <= n THEN "T" ELSE "F"

ColLe(v, n) == IF v = JNull THEN "N" ELSE IF v.n <= n THEN "T" ELSE "F"
ColAnd(a, b) ==
  IF a = "F" \/ b = "F" THEN "F" ELSE IF a = "N" \/ b = "N" THEN "N" ELSE "T"

\* the mask of line 325
FilterMask(row) == ColAnd(ColEq(row.d["Feito?"], TextNo), ColLe(row.d["Dias Restantes"], 7))

\* filter keeps the rows whose mask is true
FilterRows(rows) == SelectSeq(rows, LAMBDA row : FilterMask(row) = "T")

\* a name not bound yet, and a name bound to a value
Undefined == [def |-> FALSE]
Defined(v) == [def |-> TRUE, v |-> v]

EnvNames ==
  { "NOTION_API_KEY", "NOTION_DATABASE_ID", "TELEGRAM_BOT_TOKEN", "TELEGRAM_CHAT_ID",
    "TELEGRAM_CHAT_ID_WPP" }

NoFiles == [page |-> NoFile, materia |-> NoFile, last |-> NoFile]

\* the state of the script while a function is applied on its own
RunIdle ==
  /\ pc = "idle"
  /\ env = [n \in EnvNames |-> TRUE]
  /\ files = NoFiles
  /\ last_message_info = EmptyMap
  /\ results = <<>>
  /\ all_rows = <<>>
  /\ df = Undefined
  /\ tarefas = Undefined
  /\ mensagens_validas = Undefined
  /\ mensagem_conjunta = Undefined
  /\ reqs = <<>>
  /\ channel = {}
  /\ nextId = 1
  /\ runs = 0
  /\ database = {}
  /\ lastAtStart = NoFile
  /\ undeleted = FALSE
  /\ unrecorded = FALSE

CachesIdle == page_cache = EmptyMap /\ materia_cache = EmptyMap /\ RunIdle

\* no pool: the batches run one after the other
PoolIdle == workers = <<>> /\ cachesAtStart = [page |-> EmptyMap, materia |-> EmptyMap]

InitExtract ==
  /\ today = Today0
  /\ CachesIdle
  /\ PoolIdle
  /\ fnOp = "none"
  /\ fnArg \in PropMaps
  /\ fnOut = NoOut

CallExtractTitle ==
  /\ fnOp = "none"
  /\ \E prop_name \in PropNames :
       /\ fnOp' = "extract_title"
       /\ fnArg' = [props |-> fnArg, prop_name |-> prop_name]
       /\ fnOut' = extract_title(fnArg, prop_name)
  /\ UNCHANGED <<today, cacheVars, runVars, poolVars>>

CallExtractCheckbox ==
  /\ fnOp = "none"
  /\ \E prop_name \in PropNames :
       /\ fnOp' = "extract_checkbox"
       /\ fnArg' = [props |-> fnArg, prop_name |-> prop_name]
       /\ fnOut' = extract_checkbox(fnArg, prop_name)
  /\ UNCHANGED <<today, cacheVars, runVars, poolVars>>

CallExtractSelect ==
  /\ fnOp = "none"
  /\ \E prop_name \in PropNames :
       /\ fnOp' = "extract_select"
       /\ fnArg' = [props |-> fnArg, prop_name |-> prop_name]
       /\ fnOut' = extract_select(fnArg, prop_name)
  /\ UNCHANGED <<today, cacheVars, runVars, poolVars>>

CallExtractDate ==
  /\ fnOp = "none"
  /\ \E prop_name \in PropNames :
       /\ fnOp' = "extract_date"
       /\ fnArg' = [props |-> fnArg, prop_name |-> prop_name]
       /\ fnOut' = extract_date(fnArg, prop_name)
  /\ UNCHANGED <<today, cacheVars, runVars, poolVars>>

CallExtractRichText ==
  /\ fnOp = "none"
  /\ \E prop_name \in PropNames :
       /\ fnOp' = "extract_rich_text"
       /\ fnArg' = [props |-> fnArg, prop_name |-> prop_name]
       /\ fnOut' = extract_rich_text(fnArg, prop_name)
  /\ UNCHANGED <<today, cacheVars, runVars, poolVars>>

\* process_result hands the extracted date to calculate_days_remaining
CallDaysRemaining ==
  /\ fnOp = "none"
  /\ \E prop_name \in PropNames :
       LET entrega_date == extract_date(fnArg, prop_name)
       IN /\ fnOp' = "calculate_days_remaining"
          /\ fnArg' = [props |-> fnArg, prop_name |-> prop_name]
          /\ fnOut' = IF entrega_date.ok
                      THEN calculate_days_remaining(entrega_date.v, today)
                      ELSE entrega_date
  /\ UNCHANGED <<today, cacheVars, runVars, poolVars>>

NextExtract ==
  \/ CallExtractTitle
  \/ CallExtractCheckbox
  \/ CallExtractSelect
  \/ CallExtractDate
  \/ CallExtractRichText
  \/ CallDaysRemaining

(***************************************************************************)
(* gerar_mensagem_tarefa and escapar_markdown_v2 applied on their own.     *)
(***************************************************************************)
\* all texts over an alphabet up to a length
TextsOver(alphabet, n) == UNION { [1..m -> alphabet] : m \in 0..n }

MaxTopics == 2

FieldTexts == TextsOver({"a", "-"}, MaxTextLen)
DescricaoTexts == { <<>>, <<"a", "_", "!">> }
TopicoTitles == { <<"a">>, <<" ", "b", ".">> }
TopicosTexts == { JoinCommaSpace(l) : l \in UNION { [1..m -> TopicoTitles] : m \in 0..MaxTopics } }
EntregaDays == { 4, 6, 7, 9, 11, 13, 15 }
EscAlphabet == { caracteres_reservados[i] : i \in 1..Len(caracteres_reservados) } \cup { "a", "\\" }

MsgTarefas ==
  { MakeRow(EmptyStr, JStr(TextNo), JStr(tipo), EmptyStr, JStr(materia),
            JStr(DateText(3, d)),
            calculate_days_remaining(JStr(DateText(3, d)), Today0).v,
            JStr(descricao), JStr(topicos)) :
      tipo \in FieldTexts, materia \in FieldTexts, d \in EntregaDays,
      descricao \in DescricaoTexts, topicos \in TopicosTexts }
  \cup { Dict1("Dias Restantes", JInt(n)) : n \in -2..9 }

InitMsg ==
  /\ today = Today0
  /\ CachesIdle
  /\ PoolIdle
  /\ fnOp = "none"
  /\ fnArg \in MsgTarefas \cup { JStr(t) : t \in TextsOver(EscAlphabet, MaxTextLen) }
  /\ fnOut = NoOut

CallGerarMensagem ==
  /\ fnOp = "none"
  /\ fnArg.k = "dict"
  /\ fnOp' = "gerar_mensagem_tarefa"
  /\ fnOut' = gerar_mensagem_tarefa(fnArg)
  /\ UNCHANGED <<today, fnArg, cacheVars, runVars, poolVars>>

CallEscapar ==
  /\ fnOp = "none"
  /\ fnArg.k = "str"
  /\ fnOp' = "escapar_markdown_v2"
  /\ fnOut' = Ret(JStr(escapar_markdown_v2(fnArg.s)))
  /\ UNCHANGED <<today, fnArg, cacheVars, runVars, poolVars>>

NextMsg == CallGerarMensagem \/ CallEscapar

(***************************************************************************)
(* The cache functions applied on their own to files of every age.         *)
(***************************************************************************)
MaxAgeDays == 3
MaxFileAge == (MaxAgeDays + 2) * HoursPerDay

SampleMap == [x \in {"key"} |-> JStr(<<"v">>)]

CacheFiles ==
  { NoFile }
  \cup { File(age, valid, map) :
           age \in 0..MaxFileAge, valid \in BOOLEAN, map \in {EmptyMap, SampleMap} }

InitCache ==
  /\ today = Today0
  /\ CachesIdle
  /\ PoolIdle
  /\ fnOp = "none"
  /\ fnArg \in [file : CacheFiles, max_age_days : 1..MaxAgeDays]
  /\ fnOut = NoOut

CallCheckAndUpdateCache ==
  /\ fnOp = "none"
  /\ fnOp' = "check_and_update_cache"
  /\ fnOut' = Ret(check_and_update_cache(fnArg.file, fnArg.max_age_days))
  /\ UNCHANGED <<today, fnArg, cacheVars, runVars, poolVars>>

CallLoadCache ==
  /\ fnOp = "none"
  /\ fnOp' = "load_cache"
  /\ fnOut' = Ret(load_cache(fnArg.file))
  /\ UNCHANGED <<today, fnArg, cacheVars, runVars, poolVars>>

NextCache == CallCheckAndUpdateCache \/ CallLoadCache

(***************************************************************************)
(* The relation resolver applied on its own.                               *)
(***************************************************************************)
MaxRelations == 2

RelationLists == UNION { [1..m -> { Rel(id) : id \in RelIds }] : m \in 0..MaxRelations }

RelationProps ==
  { EmptyDict }
  \cup { Dict1(n, v) : n \in {"Matéria", "Tópicos"},
                       v \in { EmptyDict, Dict1("relation", JNull) }
                             \cup { Dict1("relation", JList(l)) : l \in RelationLists } }

\* caches hold what an earlier run stored: pages and titles of the remote records
PageCaches == { [x \in ids |-> RemotePage(x)] : ids \in SUBSET RelIds }
MateriaCaches == { [x \in ids |-> RemoteTitle(x)] : ids \in SUBSET (RelIds \ {"C"}) }

InitRel ==
  /\ today = Today0
  /\ RunIdle
  /\ PoolIdle
  /\ page_cache \in PageCaches
  /\ materia_cache \in MateriaCaches
  /\ fnOp = "none"
  /\ fnArg \in RelationProps
  /\ fnOut = NoOut

CallExtractRelationTitles ==
  /\ fnOp = "none"
  /\ \E prop_name \in {"Matéria", "Tópicos"}, outcomes \in [1..MaxRelations -> BOOLEAN] :
       LET r == extract_relation_titles_async(fnArg, prop_name, materia_cache,
                                              page_cache, outcomes)
       IN /\ fnOp' = "extract_relation_titles_async"
          /\ fnArg' = [props |-> fnArg, prop_name |-> prop_name, outcomes |-> outcomes,
                       requests |-> r.requests]
          /\ fnOut' = r.titles
          /\ page_cache' = r.page_cache
          /\ materia_cache' = r.materia_cache
  /\ UNCHANGED <<today, runVars, poolVars>>

NextRel == CallExtractRelationTitles

(***************************************************************************)
(* The script, run after run.  A run goes through the module-level code    *)
(* of bot.py from top to bottom; it ends at the last line ("done"), at a   *)
(* raise of the script itself ("aborted") or at an exception nothing       *)
(* catches ("crashed").  Files and the chat outlive the run.               *)
(***************************************************************************)
MaxRuns == 2
MaxPages == 2
MaxDays == 1

CacheMaxAge == 3
batch_size == 50

\* strftime("%Y-%m-%d") of a day of 2025
strftime_ymd(ord) ==
  LET doy == ord - 365 * 2025
      m == CHOOSE k \in 1..12 :
             DaysBeforeMonth[k] < doy /\ doy <= DaysBeforeMonth[k] + DaysInMonth[k]
  IN DateText(m, doy - DaysBeforeMonth[m])

\* a record of the task database as the query returns it
Record(done, dateProperty, materia) ==
  Dict1("properties",
    JDict([x \in {"Feito?", "Tipo", "Data de Entrega", "Matéria"} |->
             CASE x = "Feito?" -> Dict1("checkbox", JBool(done))
               [] x = "Tipo" -> Dict1("select", Dict1("name", JStr(<<"p">>)))
               [] x = "Data de Entrega" -> dateProperty
               [] x = "Matéria" ->
                    Dict1("relation", JList([i \in 1..Len(materia) |-> Rel(materia[i])]))]))

DateOn(t) == Dict1("date", Dict1("start", JStr(t)))

RunRecords ==
  { Record(FALSE, DateOn(DateText(3, 9)), <<"A">>),
    Record(TRUE, DateOn(DateText(3, 9)), <<>>),
    Record(FALSE, DateOn(DateText(3, 13)), <<>>),
    Record(FALSE, DateOn(DateText(3, 4)), <<>>),
    Record(FALSE, DateOn(DateText(3, 15)), <<>>),
    Record(FALSE, EmptyDict, <<>>),
    Record(FALSE, Dict1("date", JNull), <<>>),
    Record(FALSE, DateOn(DateTimeText), <<>>) }

StaleAge == (CacheMaxAge + 1) * HoursPerDay

LastRecord(message_id, date) ==
  [x \in {"message_id", "date"} |->
     IF x = "message_id" THEN JInt(message_id) ELSE JStr(date)]

CachedA ==
  [page |-> [x \in {"A"} |-> RemotePage("A")], materia |-> [x \in {"A"} |-> RemoteTitle("A")]]

\* what earlier runs left behind: nothing; stale caches and the reminder of
\* the day before; fresh caches and a reminder of today, still in the chat
\* or deleted already
InitWorlds ==
  { [files |-> NoFiles, channel |-> {}, nextId |-> 1],
    [files |-> [page |-> File(StaleAge, TRUE, CachedA.page),
                materia |-> File(StaleAge, TRUE, CachedA.materia),
                last |-> File(HoursPerDay, TRUE, LastRecord(1, strftime_ymd(Today0 - 1)))],
     channel |-> {[id |-> 1, date |-> Today0 - 1]}, nextId |-> 2],
    [files |-> [page |-> File(1, TRUE, CachedA.page),
                materia |-> File(1, TRUE, CachedA.materia),
                last |-> File(1, TRUE, LastRecord(1, strftime_ymd(Today0)))],
     channel |-> {[id |-> 1, date |-> Today0]}, nextId |-> 2],
    [files |-> [page |-> File(1, TRUE, EmptyMap),
                materia |-> File(1, FALSE, EmptyMap),
                last |-> File(1, TRUE, LastRecord(1, strftime_ymd(Today0)))],
     channel |-> {}, nextId |-> 2] }

\* the names of a run, before its first line
Unbound ==
  /\ page_cache = EmptyMap
  /\ materia_cache = EmptyMap
  /\ last_message_info = EmptyMap
  /\ results = <<>>
  /\ all_rows = <<>>
  /\ df = Undefined
  /\ tarefas = Undefined
  /\ mensagens_validas = Undefined
  /\ mensagem_conjunta = Undefined
  /\ reqs = <<>>

\* the configurations of a run: everything set, one value missing, nothing set
EnvChoices ==
  { e \in [EnvNames -> BOOLEAN] :
      Cardinality({ n \in EnvNames : ~e[n] }) \in {0, 1, Cardinality(EnvNames)} }

\* one run, from any of the worlds, under any of the configurations
Init ==
  /\ today = Today0
  /\ fnOp = "none" /\ fnArg = JNull /\ fnOut = NoOut
  /\ pc = "start"
  /\ env \in EnvChoices
  /\ database = RunRecords
  /\ \E w \in InitWorlds :
       /\ files = w.files
       /\ channel = w.channel
       /\ nextId = w.nextId
       /\ lastAtStart = w.files.last
  /\ Unbound
  /\ PoolIdle
  /\ runs = 1
  /\ undeleted = FALSE
  /\ unrecorded = FALSE

\* the records of the days of runs: a task due in three days and a task done
DayRecords ==
  { Record(FALSE, DateOn(DateText(3, 9)), <<>>),
    Record(TRUE, DateOn(DateText(3, 9)), <<>>) }

\* the first run of a configured installation
InitDay ==
  /\ today = Today0
  /\ fnOp = "none" /\ fnArg = JNull /\ fnOut = NoOut
  /\ pc = "start"
  /\ env = [n \in EnvNames |-> TRUE]
  /\ database = DayRecords
  /\ files = NoFiles
  /\ channel = {}
  /\ nextId = 1
  /\ lastAtStart = NoFile
  /\ Unbound
  /\ PoolIdle
  /\ runs = 1
  /\ undeleted = FALSE
  /\ unrecorded = FALSE

Request(op, target, outcome) == [op |-> op, target |-> target, outcome |-> outcome]

\* lines 114-120: the caches are loaded
LoadCaches ==
  /\ pc = "start"
  /\ page_cache' = check_and_update_cache(files.page, CacheMaxAge)
  /\ materia_cache' = check_and_update_cache(files.materia, CacheMaxAge)
  /\ last_message_info' = load_cache(files.last)
  /\ pc' = "check_env"
  /\ UNCHANGED <<today, fnVars, env, files, results, all_rows, df, tarefas,
                 mensagens_validas, mensagem_conjunta, reqs, channel, nextId, runs, database,
                 poolVars, lastAtStart, undeleted, unrecorded>>

\* the configuration the check of line 155 asks for
NotionConfigured(e) == e["NOTION_API_KEY"] /\ e["NOTION_DATABASE_ID"]

\* the configuration the check of line 330 asks for
TelegramConfigured(e) ==
  e["TELEGRAM_BOT_TOKEN"] /\ e["TELEGRAM_CHAT_ID"] /\ e["TELEGRAM_CHAT_ID_WPP"]

\* lines 155-159
CheckNotionEnv ==
  /\ pc = "check_env"
  /\ pc' = IF NotionConfigured(env) THEN "check_api" ELSE "aborted"
  /\ UNCHANGED <<today, fnVars, cacheVars, env, files, last_message_info, results,
                 all_rows, df, tarefas, mensagens_validas, mensagem_conjunta, reqs,
                 channel, nextId, runs, database, poolVars, lastAtStart, undeleted, unrecorded>>

\* lines 160-162 and check_notion_api
CheckNotionApi ==
  /\ pc = "check_api"
  /\ \E outcome \in {"ok", "status", "neterr"} :
       /\ reqs' = Append(reqs, Request("GET database", "notion", outcome))
       /\ pc' = IF outcome = "ok" THEN "fetch" ELSE "aborted"
  /\ UNCHANGED <<today, fnVars, cacheVars, env, files, last_message_info, results,
                 all_rows, df, tarefas, mensagens_validas, mensagem_conjunta,
                 channel, nextId, runs, database, poolVars, lastAtStart, undeleted, unrecorded>>

QueryCount(rs) == Cardinality({ i \in 1..Len(rs) : rs[i].op = "POST query" })

\* the loop with the exception of line 297 caught and not raised again: the
\* records fetched so far are returned
AfterQuery_Swallow(outcome) == IF outcome = "more" THEN "fetch" ELSE "process"

\* lines 294-299: where the run goes after a query that failed ("error"),
\* answered with a cursor ("more") or answered without one ("ok")
AfterQuery(outcome) ==
  CASE outcome = "error" -> "aborted"
    [] outcome = "more" -> "fetch"
    [] OTHER -> "process"

\* one turn of the loop of fetch_notion_data
FetchPage ==
  /\ pc = "fetch"
  /\ \/ /\ reqs' = Append(reqs, Request("POST query", "notion", "error"))
        /\ pc' = AfterQuery("error")
        /\ UNCHANGED results
     \/ \E page \in {<<>>} \cup { <<r>> : r \in database }, next_cursor \in BOOLEAN :
          /\ next_cursor => QueryCount(reqs) + 1 < MaxPages
          /\ reqs' = Append(reqs, Request("POST query", "notion",
                                          IF next_cursor THEN "more" ELSE "ok"))
          /\ results' = results \o page
          /\ pc' = AfterQuery(IF next_cursor THEN "more" ELSE "ok")
  /\ UNCHANGED <<today, fnVars, cacheVars, env, files, last_message_info,
                 all_rows, df, tarefas, mensagens_validas, mensagem_conjunta,
                 channel, nextId, runs, database, poolVars, lastAtStart, undeleted, unrecorded>>

\* line 309
Batches(rs) ==
  [b \in 1..((Len(rs) + batch_size - 1) \div batch_size) |->
     SubSeq(rs, (b - 1) * batch_size + 1,
            IF b * batch_size < Len(rs) THEN b * batch_size ELSE Len(rs))]

\* the batches one after the other, each starting from the caches the one
\* before left
RECURSIVE RunBatches(_, _, _, _, _)
RunBatches(batches, b, today_ord, outcomes, st0) ==
  With(st0, LAMBDA st :
  IF b > Len(batches) \/ ~st.ok THEN st
  ELSE With(process_batch(batches[b], today_ord, st.materia_cache, st.page_cache,
                          [i \in 1..Len(batches[b]) |-> outcomes[(b - 1) * batch_size + i]]),
         LAMBDA r :
           RunBatches(batches, b + 1, today_ord, outcomes,
             [r EXCEPT !.rows = st.rows \o @, !.requests = st.requests \o @])))

PageRequests(ids) == [i \in 1..Len(ids) |-> Request("GET page", ids[i], "sent")]

\* lines 308-315: the pool runs the batches and the rows are merged; an
\* exception of a worker comes out of future.result()
ProcessBatches ==
  /\ pc = "process"
  /\ \E oc \in [1..Len(results) -> BOOLEAN] :
       \E r \in { RunBatches(Batches(results), 1, today,
                             [i \in 1..Len(results) |-> [j \in 1..MaxRelations |-> oc[i]]],
                             [ok |-> TRUE, exc |-> "", rows |-> <<>>,
                              materia_cache |-> materia_cache, page_cache |-> page_cache,
                              requests |-> <<>>]) } :
          /\ reqs' = reqs \o PageRequests(r.requests)
          /\ page_cache' = r.page_cache
          /\ materia_cache' = r.materia_cache
          /\ all_rows' = r.rows
          /\ pc' = IF r.ok THEN "frame" ELSE "crashed"
  /\ UNCHANGED <<today, fnVars, env, files, last_message_info, results,
                 df, tarefas, mensagens_validas, mensagem_conjunta,
                 channel, nextId, runs, database, poolVars, lastAtStart, undeleted, unrecorded>>

\* line 318: a frame without rows has no column to sort by
BuildFrame ==
  /\ pc = "frame"
  /\ IF all_rows = <<>>
     THEN pc' = "crashed" /\ UNCHANGED df
     ELSE \E fr \in SortedFrames(all_rows) : df' = Defined(fr) /\ pc' = "save"
  /\ UNCHANGED <<today, fnVars, cacheVars, env, files, last_message_info, results,
                 all_rows, tarefas, mensagens_validas, mensagem_conjunta, reqs,
                 channel, nextId, runs, database, poolVars, lastAtStart, undeleted, unrecorded>>

\* lines 321-323
SaveCaches ==
  /\ pc = "save"
  /\ \E wp \in BOOLEAN, wm \in BOOLEAN :
       /\ files' = [files EXCEPT !.page = save_cache(page_cache, @, wp),
                                 !.materia = save_cache(materia_cache, @, wm)]
       /\ reqs' = reqs \o << Request("write", "page_cache.json", IF wp THEN "ok" ELSE "error"),
                             Request("write", "materia_cache.json", IF wm THEN "ok" ELSE "error") >>
  /\ pc' = "filter"
  /\ UNCHANGED <<today, fnVars, cacheVars, env, last_message_info, results,
                 all_rows, df, tarefas, mensagens_validas, mensagem_conjunta,
                 channel, nextId, runs, database, poolVars, lastAtStart, undeleted, unrecorded>>

\* lines 325-328
FilterFrame ==
  /\ pc = "filter"
  /\ tarefas' = Defined(FilterRows(df.v))
  /\ pc' = "check_telegram"
  /\ UNCHANGED <<today, fnVars, cacheVars, env, files, last_message_info, results,
                 all_rows, df, mensagens_validas, mensagem_conjunta, reqs,
                 channel, nextId, runs, database, poolVars, lastAtStart, undeleted, unrecorded>>

\* lines 330-333
CheckTelegramEnv ==
  /\ pc = "check_telegram"
  /\ pc' = IF TelegramConfigured(env) THEN "generate" ELSE "aborted"
  /\ UNCHANGED <<today, fnVars, cacheVars, env, files, last_message_info, results,
                 all_rows, df, tarefas, mensagens_validas, mensagem_conjunta, reqs,
                 channel, nextId, runs, database, poolVars, lastAtStart, undeleted, unrecorded>>

\* line 467: the fragments of the tasks, or the first exception
RECURSIVE Mensagens(_)
Mensagens(ts) ==
  IF ts = <<>> THEN Ret(<<>>)
  ELSE LET m == gerar_mensagem_tarefa(Head(ts))
           rest == Mensagens(Tail(ts))
       IN IF ~m.ok THEN m
          ELSE IF ~rest.ok THEN rest
          ELSE Ret(<<m.v>> \o rest.v)

\* lines 467-468
GenerateMessages ==
  /\ pc = "generate"
  /\ LET mensagens == Mensagens(tarefas.v)
     IN IF mensagens.ok
        THEN /\ mensagens_validas' = Defined(SelectSeq(mensagens.v, LAMBDA msg : msg # JNull))
             /\ pc' = "dispatch"
        ELSE /\ pc' = "crashed"
             /\ UNCHANGED mensagens_validas
  /\ UNCHANGED <<today, fnVars, cacheVars, env, files, last_message_info, results,
                 all_rows, df, tarefas, mensagem_conjunta, reqs,
                 channel, nextId, runs, database, poolVars, lastAtStart, undeleted, unrecorded>>

\* separador.join(mensagens_validas)
RECURSIVE JoinFragments(_)
JoinFragments(msgs) ==
  IF msgs = <<>> THEN <<>>
  ELSE IF Len(msgs) = 1 THEN msgs[1].l
  ELSE msgs[1].l \o <<Lit("\n\n*\\-\\-\\-\\-\\-\\-*\n\n")>> \o JoinFragments(Tail(msgs))

\* the test of line 470 left out
HasFragments_Always(msgs) == TRUE

\* the test of line 470
HasFragments(msgs) == msgs # <<>>

\* the test of lines 477-480 without the comparison of the dates
DeleteDue_AnyDate(info, current_date) == "message_id" \in DOMAIN info

\* the test of lines 477-480 with the current date written as %Y%m%d
DeleteDue_OtherFormat(info, current_date) ==
  /\ "date" \in DOMAIN info
  /\ info["date"] = JStr(SelectSeq(current_date, LAMBDA c : c # "-"))
  /\ "message_id" \in DOMAIN info

\* the test of lines 477-480
DeleteDue(info, current_date) ==
  /\ "date" \in DOMAIN info
  /\ info["date"] = JStr(current_date)
  /\ "message_id" \in DOMAIN info

\* lines 470-480 and 490-491
JoinMessages ==
  /\ pc = "dispatch"
  /\ IF HasFragments(mensagens_validas.v)
     THEN /\ mensagem_conjunta' = Defined(JoinFragments(mensagens_validas.v))
          /\ pc' = IF DeleteDue(last_message_info, strftime_ymd(today))
                   THEN "delete" ELSE "send"
     ELSE /\ pc' = "secondary"
          /\ UNCHANGED mensagem_conjunta
  /\ UNCHANGED <<today, fnVars, cacheVars, env, files, last_message_info, results,
                 all_rows, df, tarefas, mensagens_validas, reqs,
                 channel, nextId, runs, database, poolVars, lastAtStart, undeleted, unrecorded>>

Live(message_id) == \E m \in channel : m.id = message_id

\* line 481 and delete_previous_message: Telegram answers 200 only when it
\* deleted the message; a request lost on the way may or may not have arrived
DeletePrevious ==
  /\ pc = "delete"
  /\ LET message_id == last_message_info["message_id"].n
     IN \E outcome \in {"ok", "status", "neterr"}, deleted \in BOOLEAN :
          /\ outcome = "ok" => deleted
          /\ outcome = "status" => ~deleted
          /\ deleted => Live(message_id)
          /\ reqs' = Append(reqs, Request("deleteMessage", message_id, outcome))
          /\ channel' = IF deleted THEN { m \in channel : m.id # message_id } ELSE channel
          /\ undeleted' = (undeleted \/ (Live(message_id) /\ ~deleted))
  /\ pc' = "send"
  /\ UNCHANGED <<today, fnVars, cacheVars, env, files, last_message_info, results,
                 all_rows, df, tarefas, mensagens_validas, mensagem_conjunta,
                 nextId, runs, database, poolVars, lastAtStart, unrecorded>>

\* lines 484-489 and enviar_mensagem_telegram: the identifier comes back
\* with a 200 only; a request lost on the way may or may not have arrived
SendPrimary ==
  /\ pc = "send"
  /\ \E outcome \in {"ok", "status", "neterr"}, delivered \in BOOLEAN, saved \in BOOLEAN :
       /\ outcome = "ok" => delivered
       /\ outcome = "status" => ~delivered
       /\ outcome # "ok" => saved
       /\ channel' = IF delivered THEN channel \cup {[id |-> nextId, date |-> today]}
                     ELSE channel
       /\ nextId' = IF delivered THEN nextId + 1 ELSE nextId
       /\ IF outcome = "ok"
          THEN /\ last_message_info' = LastRecord(nextId, strftime_ymd(today))
               /\ files' = [files EXCEPT !.last =
                              save_cache(LastRecord(nextId, strftime_ymd(today)), @, saved)]
               /\ reqs' = reqs \o << Request("sendMessage", "TELEGRAM_CHAT_ID", outcome),
                                     Request("write", "last_message.json",
                                             IF saved THEN "ok" ELSE "error") >>
          ELSE /\ reqs' = Append(reqs, Request("sendMessage", "TELEGRAM_CHAT_ID", outcome))
               /\ UNCHANGED <<last_message_info, files>>
       /\ unrecorded' = (unrecorded \/ (delivered /\ (outcome # "ok" \/ ~saved)))
  /\ pc' = "secondary"
  /\ UNCHANGED <<today, fnVars, cacheVars, env, results, all_rows, df, tarefas,
                 mensagens_validas, mensagem_conjunta, runs, database, poolVars, lastAtStart, undeleted>>

\* lines 501-507: line 501 reads mensagem_conjunta, bound or not
SendSecondary ==
  /\ pc = "secondary"
  /\ IF mensagem_conjunta.def
     THEN \E outcome \in {"ok", "status", "neterr"} :
            /\ reqs' = Append(reqs, Request("sendMessage", "TELEGRAM_CHAT_ID_WPP", outcome))
            /\ pc' = "done"
     ELSE /\ pc' = "crashed"
          /\ UNCHANGED reqs
  /\ UNCHANGED <<today, fnVars, cacheVars, env, files, last_message_info, results,
                 all_rows, df, tarefas, mensagens_validas, mensagem_conjunta,
                 channel, nextId, runs, database, poolVars, lastAtStart, undeleted, unrecorded>>

Ended == pc \in {"done", "aborted", "crashed"}

Older(file, hours) == IF file.exists THEN [file EXCEPT !.age = @ + hours] ELSE file

\* the scheduler starts the script again, the same day or a later one
NewRun ==
  /\ Ended
  /\ runs < MaxRuns
  /\ \E elapsed \in 0..MaxDays :
       /\ today + elapsed <= Today0 + MaxDays
       /\ today' = today + elapsed
       /\ files' = [f \in DOMAIN files |-> Older(files[f], elapsed * HoursPerDay)]
  /\ lastAtStart' = files'.last
  /\ runs' = runs + 1
  /\ pc' = "start"
  /\ page_cache' = EmptyMap
  /\ materia_cache' = EmptyMap
  /\ last_message_info' = EmptyMap
  /\ results' = <<>>
  /\ all_rows' = <<>>
  /\ df' = Undefined
  /\ tarefas' = Undefined
  /\ mensagens_validas' = Undefined
  /\ mensagem_conjunta' = Undefined
  /\ reqs' = <<>>
  /\ UNCHANGED <<fnVars, env, database, poolVars, channel, nextId, undeleted, unrecorded>>

Next ==
  \/ LoadCaches
  \/ CheckNotionEnv
  \/ CheckNotionApi
  \/ FetchPage
  \/ ProcessBatches
  \/ BuildFrame
  \/ SaveCaches
  \/ FilterFrame
  \/ CheckTelegramEnv
  \/ GenerateMessages
  \/ JoinMessages
  \/ DeletePrevious
  \/ SendPrimary
  \/ SendSecondary

NextDay == Next \/ NewRun

vars == <<today, fnVars, cacheVars, runVars, poolVars>>

Spec == Init /\ [][Next]_vars

SpecDay == InitDay /\ [][NextDay]_vars

SpecExtract == InitExtract /\ [][NextExtract]_vars

SpecMsg == InitMsg /\ [][NextMsg]_vars

SpecCache == InitCache /\ [][NextCache]_vars

SpecRel == InitRel /\ [][NextRel]_vars

(***************************************************************************)
(* The pool of lines 312-315: every worker runs process_batch on its batch *)
(* and all of them read and write the two caches, with no lock.  A step is *)
(* one access to a cache or one request; a thread may be preempted between *)
(* any two of them.  A batch is given by its record that carries           *)
(* relations: the other records return at line 211 and leave the caches    *)
(* alone.  Every fetch succeeds and returns the remote record.             *)
(***************************************************************************)
MaxWorkers == 2

PoolWorkers == 1..MaxWorkers

\* the properties of a record, as far as the resolver reads them
PoolProps(materia, topicos) ==
  JDict([x \in {"Matéria", "Tópicos"} |->
           Dict1("relation",
                 JList(IF x = "Matéria"
                       THEN [i \in 1..Len(materia) |-> Rel(materia[i])]
                       ELSE [i \in 1..Len(topicos) |-> Rel(topicos[i])]))])

PoolRecords ==
  { PoolProps(<<"A">>, <<>>), PoolProps(<<"A">>, <<"B">>), PoolProps(<<"C">>, <<"A">>) }

\* what earlier runs left in the caches: nothing, a page without its title,
\* a page and its title
PoolCaches ==
  { [page |-> EmptyMap, materia |-> EmptyMap],
    [page |-> CachedA.page, materia |-> EmptyMap],
    CachedA }

\* a worker at the call of line 268
StartWorker(props) ==
  [props |-> props, prop_name |-> "Matéria", at |-> "enter", k |-> 0,
   titles |-> <<>>, data |-> JNull, materia |-> JNull, topicos |-> JNull]

InitPool ==
  /\ today = Today0
  /\ fnOp = "none" /\ fnArg = JNull /\ fnOut = NoOut
  /\ RunIdle
  /\ \E c \in PoolCaches :
       /\ page_cache = c.page
       /\ materia_cache = c.materia
       /\ cachesAtStart = c
  /\ workers \in [PoolWorkers -> { StartWorker(props) : props \in PoolRecords }]

\* line 209
Relations(wk) == wk.props.d[wk.prop_name].d["relation"].l

\* line 215
RelId(wk) == Relations(wk)[wk.k].d["id"]

\* the resolver returns: line 268 goes on to line 272, line 272 ends the row
Returned(wk, value) ==
  IF wk.prop_name = "Matéria"
  THEN [wk EXCEPT !.materia = value, !.prop_name = "Tópicos", !.at = "enter", !.k = 0,
                  !.titles = <<>>, !.data = JNull]
  ELSE [wk EXCEPT !.topicos = value, !.prop_name = "done", !.at = "done", !.k = 0,
                  !.titles = <<>>, !.data = JNull]

\* the loop of line 214 takes the next relation, or line 229 returns
NextRelation(wk, titles) ==
  IF wk.k < Len(Relations(wk))
  THEN [wk EXCEPT !.k = @ + 1, !.titles = titles, !.at = "test_title", !.data = JNull]
  ELSE Returned(wk, JoinedTitles(titles))

\* an assignment to a key of a dict (lines 200 and 224)
StoreEntry(cache, key, value) ==
  [x \in DOMAIN cache \cup {key} |-> IF x = key THEN value ELSE cache[x]]

\* line 224 writing a title next to the one another worker stored meanwhile
CacheTitle_Accumulate(cache, rel_id, title) ==
  StoreEntry(cache, rel_id, IF rel_id \in DOMAIN cache THEN cache[rel_id] \o title ELSE title)

\* line 224
CacheTitle(cache, rel_id, title) == StoreEntry(cache, rel_id, title)

\* lines 209-214
EnterResolver(w) ==
  /\ workers[w].at = "enter"
  /\ workers' = [workers EXCEPT ![w] =
                   IF Relations(@) = <<>> THEN Returned(@, NoRelations)
                   ELSE [@ EXCEPT !.k = 1, !.at = "test_title"]]
  /\ UNCHANGED <<today, fnVars, cacheVars, runVars, cachesAtStart>>

\* line 216
TestTitle(w) ==
  /\ workers[w].at = "test_title"
  /\ workers' = [workers EXCEPT ![w].at =
                   IF RelId(workers[w]) \in DOMAIN materia_cache
                   THEN "read_title" ELSE "test_page"]
  /\ UNCHANGED <<today, fnVars, cacheVars, runVars, cachesAtStart>>

\* line 218
ReadTitle(w) ==
  /\ workers[w].at = "read_title"
  /\ workers' = [workers EXCEPT ![w] =
                   NextRelation(@, Append(@.titles, materia_cache[RelId(@)]))]
  /\ UNCHANGED <<today, fnVars, cacheVars, runVars, cachesAtStart>>

\* line 192
TestPage(w) ==
  /\ workers[w].at = "test_page"
  /\ workers' = [workers EXCEPT ![w].at =
                   IF RelId(workers[w]) \in DOMAIN page_cache
                   THEN "read_page" ELSE "fetch"]
  /\ UNCHANGED <<today, fnVars, cacheVars, runVars, cachesAtStart>>

\* line 194
ReadPage(w) ==
  /\ workers[w].at = "read_page"
  /\ workers' = [workers EXCEPT ![w].data = page_cache[RelId(workers[w])],
                                ![w].at = "title"]
  /\ UNCHANGED <<today, fnVars, cacheVars, runVars, cachesAtStart>>

\* lines 197-199
FetchRemotePage(w) ==
  /\ workers[w].at = "fetch"
  /\ reqs' = Append(reqs, Request("GET page", RelId(workers[w]), "ok"))
  /\ workers' = [workers EXCEPT ![w].data = RemotePage(RelId(workers[w])),
                                ![w].at = "store_page"]
  /\ UNCHANGED <<today, fnVars, cacheVars, pc, env, files, last_message_info, results,
                 all_rows, df, tarefas, mensagens_validas, mensagem_conjunta,
                 channel, nextId, runs, database, lastAtStart, undeleted, unrecorded,
                 cachesAtStart>>

\* line 200
StorePage(w) ==
  /\ workers[w].at = "store_page"
  /\ page_cache' = StoreEntry(page_cache, RelId(workers[w]), workers[w].data)
  /\ workers' = [workers EXCEPT ![w].at = "title"]
  /\ UNCHANGED <<today, fnVars, materia_cache, runVars, cachesAtStart>>

\* lines 222-226
StoreTitle(w) ==
  /\ workers[w].at = "title"
  /\ \E title \in { extract_title(PyGet(Ret(workers[w].data), "properties", EmptyDict).v,
                                  "Name") } :
       IF title.ok /\ Truthy(title.v)
       THEN /\ materia_cache' = CacheTitle(materia_cache, RelId(workers[w]), title.v.s)
            /\ workers' = [workers EXCEPT ![w] = NextRelation(@, Append(@.titles, title.v.s))]
       ELSE /\ UNCHANGED materia_cache
            /\ workers' = [workers EXCEPT ![w] = NextRelation(@, @.titles)]
  /\ UNCHANGED <<today, fnVars, page_cache, runVars, cachesAtStart>>

NextPool ==
  \E w \in PoolWorkers :
    \/ EnterResolver(w)
    \/ TestTitle(w)
    \/ ReadTitle(w)
    \/ TestPage(w)
    \/ ReadPage(w)
    \/ FetchRemotePage(w)
    \/ StorePage(w)
    \/ StoreTitle(w)

SpecPool == InitPool /\ [][NextPool]_vars

ExtractorOps ==
  { "extract_title", "extract_checkbox", "extract_select", "extract_date",
    "extract_rich_text", "calculate_days_remaining" }

\* the key under which the property carries the value an extractor reads
TagOf(op) ==
  CASE op = "extract_title" -> "title"
    [] op = "extract_checkbox" -> "checkbox"
    [] op = "extract_select" -> "select"
    [] op = "extract_date" -> "date"
    [] op = "extract_rich_text" -> "rich_text"
    [] op = "calculate_days_remaining" -> "date"

\* the documented default of an extractor
DefaultOf(op) ==
  CASE op = "extract_checkbox" -> JStr(<<"N", "o">>)
    [] op = "calculate_days_remaining" -> JNull
    [] OTHER -> EmptyStr

FieldMissing(op, a) ==
  \/ a.prop_name \notin DOMAIN a.props.d
  \/ /\ a.props.d[a.prop_name].k = "dict"
     /\ TagOf(op) \notin DOMAIN a.props.d[a.prop_name].d

FieldTagged(op, a) ==
  /\ a.prop_name \in DOMAIN a.props.d
  /\ a.props.d[a.prop_name].k = "dict"
  /\ TagOf(op) \in DOMAIN a.props.d[a.prop_name].d

TaggedValue(op, a) == a.props.d[a.prop_name].d[TagOf(op)]

FieldNull(op, a) ==
  \/ a.prop_name \in DOMAIN a.props.d /\ a.props.d[a.prop_name] = JNull
  \/ FieldTagged(op, a) /\ TaggedValue(op, a) = JNull

FieldEmptyList(op, a) == FieldTagged(op, a) /\ TaggedValue(op, a) = EmptyList

FieldBadDate(op, a) ==
  /\ op = "calculate_days_remaining"
  /\ FieldTagged(op, a)
  /\ TaggedValue(op, a).k = "dict"
  /\ "start" \in DOMAIN TaggedValue(op, a).d
  /\ TaggedValue(op, a).d["start"].k = "str"
  /\ ~IsDateText(TaggedValue(op, a).d["start"].s)

AbsentOrMalformed(op, a) ==
  FieldMissing(op, a) \/ FieldNull(op, a) \/ FieldEmptyList(op, a) \/ FieldBadDate(op, a)

\* C5: each extractor returns its documented default and never raises when
\* the field is missing, null instead of an object, an empty list, or a date
\* string that is not a plain date.
C5_ExtractorsDefault ==
  (fnOp \in ExtractorOps /\ AbsentOrMalformed(fnOp, fnArg))
    => fnOut = Ret(DefaultOf(fnOp))

Milestones == {0, 1, 3, 7}

DiasOf(tarefa) == tarefa.d["Dias Restantes"]

\* C7: gerar_mensagem_tarefa returns None exactly for the tasks whose
\* days-remaining is none of the milestone values 0, 1, 3, 7.
C7_OnlyMilestones ==
  (fnOp = "gerar_mensagem_tarefa" /\ fnOut.ok)
    => (fnOut.v = JNull <=> DiasOf(fnArg).n \notin Milestones)

ReservedChars == { caracteres_reservados[i] : i \in 1..Len(caracteres_reservados) }

\* every reserved character of the text has a backslash right before it
Escaped(t) ==
  \A i \in 1..Len(t) : t[i] \in ReservedChars => (i > 1 /\ t[i - 1] = "\\")

PassesFilter(tarefa) ==
  /\ "Feito?" \in DOMAIN tarefa.d => tarefa.d["Feito?"] = JStr(TextNo)
  /\ DiasOf(tarefa).k = "int"
  /\ DiasOf(tarefa).n <= 7

\* C8: in every fragment, each reserved character of a piece interpolated
\* from the task (type, subject, days-remaining text, due date, topic,
\* description) is preceded by a backslash, past-due tasks included.
C8_InterpolatedEscaped ==
  (fnOp = "gerar_mensagem_tarefa" /\ PassesFilter(fnArg) /\ fnOut.ok /\ fnOut.v # JNull)
    => \A i \in 1..Len(fnOut.v.l) :
         fnOut.v.l[i].src # "literal" => Escaped(fnOut.v.l[i].t)

\* C9: check_and_update_cache returns the empty mapping for every existing
\* file older than maxAgeDays days, whatever the file contains.
C9_StaleCacheEmpty ==
  (fnOp = "check_and_update_cache" /\ fnArg.file.exists
     /\ fnArg.file.age > fnArg.max_age_days * HoursPerDay)
    => fnOut = Ret(EmptyMap)

RelationsEmptyOrAbsent(a) ==
  \/ a.prop_name \notin DOMAIN a.props.d
  \/ "relation" \notin DOMAIN a.props.d[a.prop_name].d
  \/ a.props.d[a.prop_name].d["relation"] = EmptyList

\* C10 as claimed: the resolver returns the sentinel, not the empty string,
\* for an empty relation list or an absent field.
C10_SentinelWhenEmpty ==
  (fnOp = "extract_relation_titles_async" /\ RelationsEmptyOrAbsent(fnArg))
    => fnOut = Ret(JStr(TextNenhumaRelacao))

\* C10 amended: the resolver returns the empty string for an empty relation
\* list or an absent field, for subject and topics alike; the sentinel is
\* what it returns for a non-empty list none of whose identifiers resolves.
C10_EmptyStringWhenEmpty ==
  fnOp = "extract_relation_titles_async" =>
    /\ RelationsEmptyOrAbsent(fnArg) => fnOut = Ret(EmptyStr)
    /\ (fnOut.ok /\ fnOut.v = JStr(TextNenhumaRelacao)) =>
         /\ ~RelationsEmptyOrAbsent(fnArg)
         /\ fnArg.props.d[fnArg.prop_name].d["relation"] # JNull
         /\ \A i \in 1..Len(fnArg.props.d[fnArg.prop_name].d["relation"].l) :
              LET id == fnArg.props.d[fnArg.prop_name].d["relation"].l[i].d["id"]
              IN id \notin DOMAIN materia_cache

\* an empty relation list went through the resolver, for each of the two fields
C10_Witness ==
  /\ fnOp = "extract_relation_titles_async"
  /\ fnArg.prop_name = "Tópicos"
  /\ fnArg.prop_name \in DOMAIN fnArg.props.d
  /\ "relation" \in DOMAIN fnArg.props.d[fnArg.prop_name].d
  /\ fnArg.props.d[fnArg.prop_name].d["relation"] = EmptyList
  /\ fnOut = Ret(EmptyStr)

SentTo(chat) == { i \in 1..Len(reqs) : reqs[i].op = "sendMessage" /\ reqs[i].target = chat }
Deletes == { i \in 1..Len(reqs) : reqs[i].op = "deleteMessage" }

\* C1: in a run where no task matches the dispatch filter, no sendMessage
\* request goes to any chat, no deleteMessage request is issued and the
\* last-dispatch file is the one the run found.
C1_NoMatchNoDispatch ==
  (tarefas.def /\ tarefas.v = <<>>)
    => /\ \A i \in 1..Len(reqs) : reqs[i].op \notin {"sendMessage", "deleteMessage"}
       /\ files.last = lastAtStart

\* the record the run found names a message and carries today's date
RecordedToday ==
  LET info == load_cache(lastAtStart)
  IN /\ "message_id" \in DOMAIN info
     /\ "date" \in DOMAIN info
     /\ info["date"] = JStr(strftime_ymd(today))

\* a run whose filter kept nothing went past the dispatch code and ended,
\* with a reminder of the same day on record
C1_Witness ==
  /\ Ended
  /\ tarefas.def /\ tarefas.v = <<>>
  /\ mensagens_validas.def
  /\ RecordedToday


\* C2: in a run with a fragment, a deleteMessage request for the recorded
\* identifier is issued exactly when the record holds an identifier and
\* today's date; it comes before the sendMessage request to the primary
\* chat, which is issued whatever the outcome of the delete.
C2_DeleteThenSend ==
  /\ Deletes # {} => (mensagens_validas.def /\ mensagens_validas.v # <<>>)
  /\ (mensagens_validas.def /\ mensagens_validas.v # <<>> /\ pc \in {"send", "secondary", "done"})
       => /\ RecordedToday <=> Deletes # {}
          /\ \A i \in Deletes : reqs[i].target = load_cache(lastAtStart)["message_id"].n
          /\ Cardinality(Deletes) <= 1
          /\ pc = "send" => (SentTo("TELEGRAM_CHAT_ID") = {} /\ ENABLED SendPrimary)
          /\ pc # "send" =>
               /\ Cardinality(SentTo("TELEGRAM_CHAT_ID")) = 1
               /\ \A i \in Deletes, j \in SentTo("TELEGRAM_CHAT_ID") : i < j

\* a delete that failed on the network was followed by the send
C2_Witness ==
  /\ pc = "done"
  /\ \E i \in Deletes, j \in SentTo("TELEGRAM_CHAT_ID") :
       reqs[i].outcome = "neterr" /\ i < j

C4_NoProcessingWithoutConfig ==
  (\E n \in EnvNames : ~env[n])
    => \A i \in 1..Len(reqs) : reqs[i].op \notin {"POST query", "GET page", "write"}

KeptByClaim(row) ==
  /\ row.d["Feito?"] = JStr(TextNo)
  /\ row.d["Dias Restantes"] # JNull
  /\ row.d["Dias Restantes"].n <= 7

\* C6: the filter keeps a row exactly when the task is not done and its
\* days-remaining is not null and at most 7; a row without days-remaining
\* is not among the rows handed to gerar_mensagem_tarefa.
C6_FilterKeeps ==
  tarefas.def =>
    /\ tarefas.v = SelectSeq(df.v, KeptByClaim)
    /\ \A i \in 1..Len(tarefas.v) : tarefas.v[i].d["Dias Restantes"] # JNull

\* the filter dropped a row without days-remaining and kept another row
C6_Witness ==
  /\ tarefas.def
  /\ Len(tarefas.v) = 1
  /\ \E i \in 1..Len(df.v) :
       df.v[i].d["Dias Restantes"] = JNull /\ df.v[i].d["Feito?"] = JStr(TextNo)
  /\ mensagens_validas.def

Queries == { i \in 1..Len(reqs) : reqs[i].op = "POST query" }

QueryFailed == \E i \in Queries : reqs[i].outcome = "error"

\* what follows the fetch: page requests of the resolver, writes of files,
\* requests to the chats
AfterFetchOps == { i \in 1..Len(reqs) :
                    reqs[i].op \in {"GET page", "write", "deleteMessage", "sendMessage"} }

PastFetch ==
  pc \in {"process", "frame", "save", "filter", "check_telegram", "generate",
          "dispatch", "delete", "send", "secondary", "done", "crashed"}

\* C11: once a query of the paginated fetch failed, the run is over with no
\* row built, no page requested by the resolver, no file written and no
\* deleteMessage or sendMessage request; and whatever follows the fetch
\* comes after a run of queries that all succeeded, the last of them, and
\* only the last, answered without a cursor.
C11_FetchFailureAborts ==
  /\ QueryFailed =>
       /\ pc = "aborted"
       /\ all_rows = <<>>
       /\ ~df.def /\ ~tarefas.def
       /\ AfterFetchOps = {}
       /\ files.last = lastAtStart
  /\ (PastFetch \/ AfterFetchOps # {} \/ all_rows # <<>>) =>
       /\ Queries # {}
       /\ \A i \in Queries :
            reqs[i].outcome = IF \A j \in Queries : j <= i THEN "ok" ELSE "more"
       /\ \A i \in Queries, j \in AfterFetchOps : i < j

\* the second query failed after the first had brought a record and a cursor
C11_Witness ==
  /\ pc = "aborted"
  /\ QueryFailed
  /\ \E i \in Queries : reqs[i].outcome = "more"
  /\ results # <<>>

\* every request of a sequential run answered
AllFetched == [j \in 1..MaxRelations |-> TRUE]

\* the records of the workers resolved one after the other, from the caches
\* the pool found: the rows, the caches left and the identifiers requested
RECURSIVE SequentialFrom(_, _)
SequentialFrom(w, st0) ==
  With(st0, LAMBDA st :
  IF w > Len(workers) THEN st
  ELSE With(extract_relation_titles_async(workers[w].props, "Matéria",
                                          st.materia_cache, st.page_cache, AllFetched),
         LAMBDA m :
           With(extract_relation_titles_async(workers[w].props, "Tópicos",
                                              m.materia_cache, m.page_cache, AllFetched),
             LAMBDA t :
               SequentialFrom(w + 1,
                 [rows |-> Append(st.rows, [materia |-> m.titles.v, topicos |-> t.titles.v]),
                  materia_cache |-> t.materia_cache,
                  page_cache |-> t.page_cache,
                  requests |-> st.requests \o m.requests \o t.requests]))))

SequentialRun ==
  SequentialFrom(1, [rows |-> <<>>, materia_cache |-> cachesAtStart.materia,
                     page_cache |-> cachesAtStart.page, requests |-> <<>>])

AllDone == workers # <<>> /\ \A w \in DOMAIN workers : workers[w].at = "done"

Requested == { reqs[i].target : i \in 1..Len(reqs) }

\* C12: whatever the interleaving of the workers, every entry of the title
\* cache is the title of the remote record and every entry of the record
\* cache is the remote record; the subject and the topics a worker resolved
\* are those of the sequential run; and when all workers are done the caches
\* and the set of identifiers requested are those of the sequential run, so
\* that a race shows only in an identifier requested more than once.
C12_RacesOnlyRefetch ==
  /\ \A id \in DOMAIN materia_cache : materia_cache[id] = RemoteTitle(id)
  /\ \A id \in DOMAIN page_cache : page_cache[id] = RemotePage(id)
  /\ \E seq \in {SequentialRun} :
       /\ \A w \in DOMAIN workers :
            /\ workers[w].materia # JNull => workers[w].materia = seq.rows[w].materia
            /\ workers[w].topicos # JNull => workers[w].topicos = seq.rows[w].topicos
       /\ AllDone =>
            /\ materia_cache = seq.materia_cache
            /\ page_cache = seq.page_cache
            /\ Requested = { seq.requests[i] : i \in 1..Len(seq.requests) }

\* two workers missed both caches for the same identifier and both fetched it
C12_Witness ==
  /\ AllDone
  /\ \E i, j \in 1..Len(reqs) : i < j /\ reqs[i].target = reqs[j].target
  /\ \E id \in DOMAIN materia_cache : id \notin DOMAIN cachesAtStart.materia

\* C13: a run with every configuration value set that completed the fetch
\* never stops at an exception nothing catches, whatever records it fetched,
\* whatever the filter kept and whatever the chats answered.
C13_ReachesNormalEnd ==
  ((\A n \in EnvNames : env[n]) /\ PastFetch) => pc # "crashed"

====
